---- MODULE Spec2Model ----
(***************************************************************************)
(* A model of .github/scripts/generate_sidebar.py: the wiki directory is   *)
(* populated, generate_sidebar scans it and builds the sidebar lines in    *)
(* memory, and the lines are written to the output file.  File names,      *)
(* paths, patterns and output lines are strings, handled character by      *)
(* character as the Python string methods handle them.                     *)
(***************************************************************************)
EXTENDS Integers, Sequences, FiniteSets, TLC

VARIABLES
    fs,                 \* the entries below the wiki directory: [parent, name, isdir]
    gitignore,          \* the content of <wiki_dir>/.gitignore, or NoFile
    unreadable,         \* the directories whose listing the OS refuses
    pc,                 \* where the run is: "setup", "built", "done", "failed", "call", "return"
    runs,               \* the number of generate_sidebar calls started
    output_file,        \* generate_sidebar's output_file argument
    gitignore_patterns, \* the list load_gitignore_patterns returned
    sidebar_content,    \* generate_sidebar's list of output lines
    outline,            \* for each line of sidebar_content: its kind, level and source entry
    dest,               \* the content of the output file, or NoFile
    history,            \* the content each completed run wrote, oldest first
    read_errors,        \* the directories whose listing failed inside os.walk in this run
    filename,           \* generate_wiki_link's argument
    link,               \* generate_wiki_link's result
    path,               \* should_ignore's path argument
    ignored             \* should_ignore's result

vars == <<fs, gitignore, unreadable, pc, runs, output_file, gitignore_patterns,
          sidebar_content, outline, dest, history, read_errors, filename, link,
          path, ignored>>

NoFile == "<no file>"
NoValue == "<none>"

\* ---------------------------------------------------------------- bounds

MaxEntries == 5
MaxRuns == 2
MaxUnreadable == 1
MaxStem == 3
MaxPatterns == 2

\* ---------------------------------------------------------------- strings

StartsWith(s, p) == Len(p) <= Len(s) /\ SubSeq(s, 1, Len(p)) = p

EndsWith(s, p) == Len(p) <= Len(s) /\ SubSeq(s, Len(s) - Len(p) + 1, Len(s)) = p

\* Python's `p in s`
Contains(s, p) == \E i \in 1..(Len(s) - Len(p) + 1) : SubSeq(s, i, i + Len(p) - 1) = p

CharAt(s, i) == SubSeq(s, i, i)

\* the printable ASCII characters in code-point order, from 32 (space) to 126 (~);
\* the places of the double quote (34) and the backquote (96), which a string
\* literal here cannot hold and no name of the model contains, are held by a tab
\* and a line feed
Ascii == " !\t#$%&'()*+,-./0123456789:;<=>?@ABCDEFGHIJKLMNOPQRSTUVWXYZ[\\]^_\nabcdefghijklmnopqrstuvwxyz{|}~"

CodePoint(c) == 31 + (CHOOSE i \in 1..Len(Ascii) : CharAt(Ascii, i) = c)

\* Python's str < str: by code point at the first difference, a proper prefix first
RECURSIVE StrLess(_, _)
StrLess(a, b) ==
    IF b = "" THEN FALSE
    ELSE IF a = "" THEN TRUE
    ELSE IF Head(a) = Head(b) THEN StrLess(Tail(a), Tail(b))
    ELSE CodePoint(Head(a)) < CodePoint(Head(b))

\* sorted(S) for a set of distinct strings
RECURSIVE Sorted(_)
Sorted(S) ==
    IF S = {} THEN <<>>
    ELSE LET m == CHOOSE x \in S : \A y \in S \ {x} : StrLess(x, y)
         IN  <<m>> \o Sorted(S \ {m})

\* str.replace(old, new) for a one-character old
RECURSIVE Replace(_, _, _)
Replace(s, old, new) ==
    IF s = "" THEN ""
    ELSE (IF Head(s) = old THEN new ELSE Head(s)) \o Replace(Tail(s), old, new)

\* str.split(sep) for a one-character sep
RECURSIVE Split(_, _)
Split(s, sep) ==
    IF ~Contains(s, sep) THEN <<s>>
    ELSE LET i == CHOOSE k \in 1..Len(s) :
                    CharAt(s, k) = sep /\ \A j \in 1..(k - 1) : CharAt(s, j) # sep
         IN  <<SubSeq(s, 1, i - 1)>> \o Split(SubSeq(s, i + 1, Len(s)), sep)

Whitespace == {" ", "\t", "\n"}

\* str.strip()
RECURSIVE Strip(_)
Strip(s) ==
    IF s = "" THEN ""
    ELSE IF Head(s) \in Whitespace THEN Strip(Tail(s))
    ELSE IF CharAt(s, Len(s)) \in Whitespace THEN Strip(SubSeq(s, 1, Len(s) - 1))
    ELSE s

\* "sep".join(lines)
RECURSIVE StrJoin(_, _)
StrJoin(lines, sep) ==
    IF lines = <<>> THEN ""
    ELSE IF Len(lines) = 1 THEN lines[1]
    ELSE lines[1] \o sep \o StrJoin(Tail(lines), sep)

\* the concatenation of a sequence of sequences
RECURSIVE Flatten(_)
Flatten(ss) == IF ss = <<>> THEN <<>> ELSE Head(ss) \o Flatten(Tail(ss))

\* os.path.splitext(name)[0] for a name without separators: the last dot starts
\* the extension unless only dots precede it
SplitExtRoot(name) ==
    LET dots == {i \in 1..Len(name) : CharAt(name, i) = "."}
    IN  IF dots = {} THEN name
        ELSE LET d == CHOOSE i \in dots : \A j \in dots : j <= i
             IN  IF \E k \in 1..(d - 1) : CharAt(name, k) # "."
                 THEN SubSeq(name, 1, d - 1)
                 ELSE name

HexDigits == "0123456789ABCDEF"

\* the characters urllib.parse.quote leaves alone: letters, digits, "_.-~" and "/"
QuoteSafe(c) ==
    LET n == CodePoint(c)
    IN  \/ (48 <= n /\ n <= 57) \/ (65 <= n /\ n <= 90) \/ (97 <= n /\ n <= 122)
        \/ c \in {"_", ".", "-", "~", "/"}

\* urllib.parse.quote(s) for ASCII s
RECURSIVE Quote(_)
Quote(s) ==
    IF s = "" THEN ""
    ELSE LET c == Head(s)
             n == CodePoint(c)
         IN  (IF QuoteSafe(c) THEN c
              ELSE "%" \o CharAt(HexDigits, (n \div 16) + 1) \o CharAt(HexDigits, (n % 16) + 1))
             \o Quote(Tail(s))

\* ---------------------------------------------------------------- links

clean_filename(name) == Replace(Replace(SplitExtRoot(name), "-", " "), "_", " ")

\* generate_wiki_link building the URL from the cleaned name, so that underscores
\* become hyphens too
generate_wiki_link_hyphenated(name) ==
    LET link_name == clean_filename(name)
        link_url == Quote(Replace(link_name, " ", "-"))
    IN  "[" \o link_name \o "](" \o link_url \o ")"

generate_wiki_link(name) ==
    LET link_name == clean_filename(name)
        link_url == Quote(Replace(SplitExtRoot(name), " ", "-"))
    IN  "[" \o link_name \o "](" \o link_url \o ")"

\* ---------------------------------------------------------------- the filesystem

WikiDir == "/w"

PathJoin(a, b) == a \o "/" \o b

EntryPath(e) == PathJoin(e.parent, e.name)

GitignorePath == PathJoin(WikiDir, ".gitignore")

IsDir(p) == p = WikiDir \/ \E e \in fs : e.isdir /\ EntryPath(e) = p

IsFile(p) ==
    \/ \E e \in fs : ~e.isdir /\ EntryPath(e) = p
    \/ (p = GitignorePath /\ gitignore # NoFile)

\* os.listdir(d) for a readable directory d
ListDir(d) ==
    {e.name : e \in {x \in fs : x.parent = d}}
        \cup (IF d = WikiDir /\ gitignore # NoFile THEN {".gitignore"} ELSE {})

\* the directories os.walk(top) yields a tuple for: top and, below each directory
\* it could list, the subdirectories; a directory it cannot list yields nothing
\* (os.walk's default onerror ignores the error)
RECURSIVE Walk(_)
Walk(top) ==
    IF top \in unreadable THEN {}
    ELSE {top} \cup UNION {Walk(PathJoin(top, n)) :
                              n \in {m \in ListDir(top) : IsDir(PathJoin(top, m))}}

\* the `files` of the os.walk tuple of directory root
WalkFiles(root) == {n \in ListDir(root) : ~IsDir(PathJoin(root, n))}

\* ---------------------------------------------------------------- patterns

load_gitignore_patterns ==
    IF gitignore = NoFile THEN <<>>
    ELSE LET lines == Split(gitignore, "\n")
             stripped == [i \in 1..Len(lines) |-> Strip(Split(lines[i], "#")[1])]
         IN  SelectSeq(stripped, LAMBDA line : line # "")

RECURSIVE should_ignore(_, _)
should_ignore(p, patterns) ==
    IF patterns = <<>> THEN FALSE
    ELSE LET pattern == Head(patterns)
             matched ==
                 IF EndsWith(pattern, "/") /\ IsDir(p)
                 THEN \/ EndsWith(p, SubSeq(pattern, 1, Len(pattern) - 1))
                      \/ Contains(pattern, p \o "/")
                 ELSE IF Contains(pattern, "*")
                 THEN LET parts == Split(pattern, "*")
                      IN  /\ Len(parts) = 2
                          /\ StartsWith(p, parts[1])
                          /\ EndsWith(p, parts[2])
                 ELSE Contains(p, pattern)
         IN  matched \/ should_ignore(p, Tail(patterns))

\* ---------------------------------------------------------------- rendering

RECURSIVE Indent(_)
Indent(level) == IF level = 0 THEN "" ELSE "  " \o Indent(level - 1)

\* one appended line: its text, and the entry (dir/name) and indent level it is for
Line(kind, level, dir, name, text) ==
    [kind |-> kind, level |-> level, dir |-> dir, name |-> name, text |-> text]

Texts(lines) == [i \in 1..Len(lines) |-> lines[i].text]

\* the lookahead of generate_sidebar's loop over the root-level directories
has_md_files_root(directory_path) ==
    \E root \in Walk(directory_path) :
        \E f \in WalkFiles(root) : EndsWith(f, ".md")

\* the lookahead looking at the subdirectory's own files only, not walking below it
has_md_files_direct(subdir_path, patterns) ==
    \E f \in WalkFiles(subdir_path) :
        EndsWith(f, ".md") /\ ~should_ignore(PathJoin(subdir_path, f), patterns)

\* the lookahead of process_directory's loop over the subdirectories
has_md_files(subdir_path, patterns) ==
    \E root \in Walk(subdir_path) :
        \E f \in WalkFiles(root) :
            EndsWith(f, ".md") /\ ~should_ignore(PathJoin(root, f), patterns)

\* process_directory's `files`
DirFiles(directory_path, patterns) ==
    {item \in ListDir(directory_path) :
        /\ IsFile(PathJoin(directory_path, item))
        /\ EndsWith(item, ".md")
        /\ ~StartsWith(item, "_")
        /\ ~StartsWith(item, ".")
        /\ ~should_ignore(PathJoin(directory_path, item), patterns)}

\* process_directory's `subdirs`
DirSubdirs(directory_path, patterns) ==
    {item \in ListDir(directory_path) :
        /\ IsDir(PathJoin(directory_path, item))
        /\ ~StartsWith(item, ".")
        /\ ~should_ignore(PathJoin(directory_path, item), patterns)}

RECURSIVE process_directory(_, _, _)

\* process_directory's first loop: one link line per file, in sorted order
FileLines(directory_path, level, patterns) ==
    LET files == Sorted(DirFiles(directory_path, patterns))
    IN  [i \in 1..Len(files) |->
            Line("leaf", level, directory_path, files[i],
                 Indent(level) \o "- " \o generate_wiki_link(files[i]))]

\* process_directory's second loop: for each subdirectory with content, in sorted
\* order, its header and then its own lines one level deeper
SubdirLines(directory_path, level, patterns) ==
    LET subdirs == SelectSeq(Sorted(DirSubdirs(directory_path, patterns)),
                             LAMBDA subdir :
                                 has_md_files(PathJoin(directory_path, subdir), patterns))
    IN  Flatten([i \in 1..Len(subdirs) |->
            <<Line("sub", level, directory_path, subdirs[i],
                   Indent(level) \o "- **" \o clean_filename(subdirs[i]) \o "**")>>
            \o process_directory(PathJoin(directory_path, subdirs[i]), level + 1,
                                 patterns)])

\* process_directory with its two loops in the other order
process_directory_dirs_first(directory_path, level, patterns) ==
    SubdirLines(directory_path, level, patterns)
        \o FileLines(directory_path, level, patterns)

\* the lines process_directory appends to sidebar_content
process_directory(directory_path, level, patterns) ==
    FileLines(directory_path, level, patterns)
        \o SubdirLines(directory_path, level, patterns)

\* generate_sidebar's `directories`
directories(patterns) ==
    SelectSeq(Sorted(ListDir(WikiDir)),
              LAMBDA item :
                  /\ IsDir(PathJoin(WikiDir, item))
                  /\ ~StartsWith(item, ".")
                  /\ ~should_ignore(PathJoin(WikiDir, item), patterns))

\* root_md_files without the test for Home.md
root_md_files_with_home(patterns) ==
    SelectSeq(Sorted(ListDir(WikiDir)),
              LAMBDA item :
                  /\ IsFile(PathJoin(WikiDir, item))
                  /\ EndsWith(item, ".md")
                  /\ ~StartsWith(item, "_")
                  /\ ~StartsWith(item, ".")
                  /\ ~should_ignore(PathJoin(WikiDir, item), patterns))

\* generate_sidebar's `root_md_files`
root_md_files(patterns) ==
    SelectSeq(Sorted(ListDir(WikiDir)),
              LAMBDA item :
                  /\ IsFile(PathJoin(WikiDir, item))
                  /\ EndsWith(item, ".md")
                  /\ ~StartsWith(item, "_")
                  /\ ~StartsWith(item, ".")
                  /\ item # "Home.md"
                  /\ ~should_ignore(PathJoin(WikiDir, item), patterns))

\* one pass of generate_sidebar's loop over `directories`
Section(directory, patterns) ==
    LET directory_path == PathJoin(WikiDir, directory)
    IN  IF should_ignore(directory_path, patterns) THEN <<>>
        ELSE IF ~has_md_files_root(directory_path) THEN <<>>
        ELSE <<Line("section", 0, WikiDir, directory,
                    "### " \o clean_filename(directory))>>
             \o process_directory(directory_path, 1, patterns)
             \o <<Line("blank", 0, "", "", "")>>

HomeLines == <<Line("home", 0, "", "", "### [[Home]]"), Line("blank", 0, "", "", "")>>

\* the "Unsorted" section of generate_sidebar
Unsorted(patterns) ==
    LET files == root_md_files(patterns)
        sorted_files == Sorted({files[i] : i \in 1..Len(files)})
    IN  IF files = <<>> THEN <<>>
        ELSE <<Line("unsorted", 0, "", "", "### Unsorted")>>
             \o [i \in 1..Len(sorted_files) |->
                    Line("leaf", 0, WikiDir, sorted_files[i],
                         "- " \o generate_wiki_link(sorted_files[i]))]

\* everything generate_sidebar appends to sidebar_content
BuildOutline(patterns) ==
    LET dirs == directories(patterns)
    IN  HomeLines
        \o Flatten([i \in 1..Len(dirs) |-> Section(dirs[i], patterns)])
        \o Unsorted(patterns)

\* the directories an os.walk lookahead of the run was started on
WalkTops(lines, patterns) ==
    LET dirs == directories(patterns)
    IN  {PathJoin(WikiDir, dirs[i]) : i \in 1..Len(dirs)}
        \cup UNION {{PathJoin(PathJoin(lines[i].dir, lines[i].name), s) :
                        s \in DirSubdirs(PathJoin(lines[i].dir, lines[i].name), patterns)} :
                    i \in {k \in 1..Len(lines) : lines[k].kind \in {"section", "sub"}}}

\* ---------------------------------------------------------------- inputs

DirNames == {"A", "_d", ".h"}
FileNames == {"Home.md", "a.md", "_x.md", "n.txt"}
DefaultOutput == "_Sidebar.md"
OutputFiles == {DefaultOutput, "out.md"}
RulesFiles == {"# rules\na.md\n", " _d/ \n\n*Home.md # h\n"}

\* the entries of the wiki directory, its .gitignore included
Entries == Cardinality(fs) + (IF gitignore = NoFile THEN 0 ELSE 1)

Dirs == {WikiDir} \cup {EntryPath(e) : e \in {x \in fs : x.isdir}}

\* ---------------------------------------------------------------- actions

Init ==
    /\ fs = {}
    /\ gitignore = NoFile
    /\ unreadable = {}
    /\ pc = "setup"
    /\ runs = 0
    /\ output_file = NoValue
    /\ gitignore_patterns = <<>>
    /\ sidebar_content = <<>>
    /\ outline = <<>>
    /\ dest = NoFile
    /\ history = <<>>
    /\ read_errors = {}
    /\ filename = NoValue
    /\ link = NoValue
    /\ path = NoValue
    /\ ignored = FALSE

Create(parent, name, isdir) ==
    /\ pc = "setup"
    /\ Entries < MaxEntries
    /\ parent \in Dirs
    /\ \A e \in fs : ~(e.parent = parent /\ e.name = name)
    /\ fs' = fs \cup {[parent |-> parent, name |-> name, isdir |-> isdir]}
    /\ UNCHANGED <<gitignore, unreadable, pc, runs, output_file, gitignore_patterns,
                   sidebar_content, outline, dest, history, read_errors, filename,
                   link, path, ignored>>

\* the wiki's author adds a directory
Mkdir == \E parent \in Dirs, name \in DirNames : Create(parent, name, TRUE)

\* the wiki's author adds a file
Touch == \E parent \in Dirs, name \in FileNames : Create(parent, name, FALSE)

\* the wiki's author adds the rules file
WriteRules ==
    /\ pc = "setup"
    /\ Entries < MaxEntries
    /\ gitignore = NoFile
    /\ gitignore' \in RulesFiles
    /\ UNCHANGED <<fs, unreadable, pc, runs, output_file, gitignore_patterns,
                   sidebar_content, outline, dest, history, read_errors, filename,
                   link, path, ignored>>

\* generate_sidebar up to the write: the patterns are loaded, the tree is scanned
\* and the lines are collected
Scan(out) ==
    /\ WikiDir \notin unreadable
    /\ LET patterns == load_gitignore_patterns
           lines == BuildOutline(patterns)
       IN  /\ gitignore_patterns' = patterns
           /\ outline' = lines
           /\ sidebar_content' = Texts(lines)
           /\ read_errors' = WalkTops(lines, patterns) \cap unreadable
    /\ output_file' = out
    /\ runs' = runs + 1
    /\ pc' = "built"
    /\ UNCHANGED <<fs, gitignore, unreadable, dest, history, filename, link, path, ignored>>

\* the command is run on the wiki directory, with the default output name
Run == pc = "setup" /\ Scan(DefaultOutput)

\* the command is run with --output
RunOutput == \E out \in OutputFiles \ {DefaultOutput} : pc = "setup" /\ Scan(out)

\* generate_sidebar's write of the output file
WriteOutput ==
    /\ pc = "built"
    /\ dest' = StrJoin(sidebar_content, "\n")
    /\ history' = Append(history, dest')
    /\ fs' = fs \cup {[parent |-> WikiDir, name |-> output_file, isdir |-> FALSE]}
    /\ pc' = "done"
    /\ UNCHANGED <<gitignore, unreadable, runs, output_file, gitignore_patterns,
                   sidebar_content, outline, read_errors, filename, link, path, ignored>>

\* the command is run again, with the same arguments
Rerun == pc = "done" /\ runs < MaxRuns /\ Scan(output_file)

Next == Mkdir \/ Touch \/ WriteRules \/ Run \/ WriteOutput

Spec == Init /\ [][Next]_vars

SpecRerun == Init /\ [][Next \/ RunOutput \/ Rerun]_vars

\* ---------------------------------------------------------------- failing reads

\* a directory (the wiki directory itself included) loses its read permission
Chmod ==
    /\ pc = "setup"
    /\ Cardinality(unreadable) < MaxUnreadable
    /\ \E d \in Dirs \ unreadable : unreadable' = unreadable \cup {d}
    /\ UNCHANGED <<fs, gitignore, pc, runs, output_file, gitignore_patterns,
                   sidebar_content, outline, dest, history, read_errors, filename,
                   link, path, ignored>>

\* generate_sidebar when os.listdir(wiki_dir) raises: the patterns are loaded and
\* the first two lines appended, and the exception ends the run
RunFails ==
    /\ pc = "setup"
    /\ WikiDir \in unreadable
    /\ output_file' = DefaultOutput
    /\ gitignore_patterns' = load_gitignore_patterns
    /\ outline' = HomeLines
    /\ sidebar_content' = Texts(HomeLines)
    /\ runs' = runs + 1
    /\ pc' = "failed"
    /\ UNCHANGED <<fs, gitignore, unreadable, dest, history, read_errors, filename,
                   link, path, ignored>>

SpecFail == Init /\ [][Next \/ Chmod \/ RunFails]_vars

\* ---------------------------------------------------------------- generate_wiki_link alone

StemChars == {"a", "-", "_", " ", "#", "."}

RECURSIVE Str(_)
Str(chars) == IF chars = <<>> THEN "" ELSE Head(chars) \o Str(Tail(chars))

Stems == UNION {{Str(t) : t \in [1..n -> StemChars]} : n \in 1..MaxStem}

LinkNames == {"My-File_Name.md"} \cup {stem \o ext : stem \in Stems, ext \in {".md", ""}}

InitLink ==
    /\ fs = {}
    /\ gitignore = NoFile
    /\ unreadable = {}
    /\ pc = "call"
    /\ runs = 0
    /\ output_file = NoValue
    /\ gitignore_patterns = <<>>
    /\ sidebar_content = <<>>
    /\ outline = <<>>
    /\ dest = NoFile
    /\ history = <<>>
    /\ read_errors = {}
    /\ filename \in LinkNames
    /\ link = NoValue
    /\ path = NoValue
    /\ ignored = FALSE

LinkCall ==
    /\ pc = "call"
    /\ link' = generate_wiki_link(filename)
    /\ pc' = "return"
    /\ UNCHANGED <<fs, gitignore, unreadable, runs, output_file, gitignore_patterns,
                   sidebar_content, outline, dest, history, read_errors, filename,
                   path, ignored>>

SpecLink == InitLink /\ [][LinkCall]_vars

\* ---------------------------------------------------------------- should_ignore alone

SampleTree ==
    {[parent |-> "/w", name |-> "drafts", isdir |-> TRUE],
     [parent |-> "/w/drafts", name |-> "a.md", isdir |-> FALSE],
     [parent |-> "/w", name |-> "notes.tmp", isdir |-> FALSE],
     [parent |-> "/w", name |-> "notes.tmp.md", isdir |-> FALSE],
     [parent |-> "/w", name |-> "A", isdir |-> TRUE],
     [parent |-> "/w/A", name |-> "b.md", isdir |-> FALSE]}

PatternPool == {"drafts/", "*.tmp", "a.md", "A/", "/w/A/x/"}

PatternLists == UNION {[1..n -> PatternPool] : n \in 1..MaxPatterns}

InitIgnore ==
    /\ fs = SampleTree
    /\ gitignore = NoFile
    /\ unreadable = {}
    /\ pc = "call"
    /\ runs = 0
    /\ output_file = NoValue
    /\ gitignore_patterns \in PatternLists
    /\ sidebar_content = <<>>
    /\ outline = <<>>
    /\ dest = NoFile
    /\ history = <<>>
    /\ read_errors = {}
    /\ filename = NoValue
    /\ link = NoValue
    /\ path \in {EntryPath(e) : e \in SampleTree}
    /\ ignored = FALSE

IgnoreCall ==
    /\ pc = "call"
    /\ ignored' = should_ignore(path, gitignore_patterns)
    /\ pc' = "return"
    /\ UNCHANGED <<fs, gitignore, unreadable, runs, output_file, gitignore_patterns,
                   sidebar_content, outline, dest, history, read_errors, filename,
                   link, path>>

SpecIgnore == InitIgnore /\ [][IgnoreCall]_vars

\* ---------------------------------------------------------------- properties

\* the scan of a run is complete and its output not yet written: fs is the tree
\* the lines were built from
Built == pc = "built"

LinePath(l) == PathJoin(l.dir, l.name)

\* p lies below directory d
Beneath(p, d) == StartsWith(p, d \o "/")

IsHeader(l) == l.kind \in {"section", "sub"}

\* directory d has, at any depth, a file whose name ends in .md
HasMdBelow(d) ==
    \E e \in fs : ~e.isdir /\ EndsWith(e.name, ".md") /\ (e.parent = d \/ Beneath(e.parent, d))

\* directory d has, at any depth, a file whose name ends in .md and that
\* should_ignore does not match
HasKeptMdBelow(d) ==
    \E e \in fs :
        /\ ~e.isdir
        /\ EndsWith(e.name, ".md")
        /\ (e.parent = d \/ Beneath(e.parent, d))
        /\ ~should_ignore(EntryPath(e), gitignore_patterns)

\* C1: the lookahead of a directory is true iff process_directory appends a line
\* for it, so every section header and every subsection header is followed by
\* a line nested beneath it.
C1_NoHeaderWithoutBody ==
    Built =>
        /\ \A e \in {x \in fs : x.isdir} :
               (IF e.parent = WikiDir
                THEN has_md_files_root(EntryPath(e))
                ELSE has_md_files(EntryPath(e), gitignore_patterns))
               <=> process_directory(EntryPath(e), 1, gitignore_patterns) # <<>>
        /\ \A i \in 1..Len(outline) :
               IsHeader(outline[i]) =>
                   /\ i < Len(outline)
                   /\ outline[i + 1].kind \in {"leaf", "sub"}
                   /\ outline[i + 1].level = outline[i].level + 1

\* C2: at every level process_directory renders, the link lines of the
\* directory's own files come before its subdirectory headers, the files are in
\* lexicographic order, the subdirectory headers are in lexicographic order, and
\* each subdirectory header is immediately followed by the lines of that
\* subdirectory, one level deeper.
C2_FilesThenSubdirsSorted ==
    Built =>
        \A i \in 1..Len(outline), j \in 1..Len(outline) :
            LET a == outline[i]
                b == outline[j]
            IN  /\ (a.kind = "leaf" /\ b.kind = "sub" /\ a.dir = b.dir) => i < j
                /\ (a.kind = "leaf" /\ b.kind = "leaf" /\ a.dir = b.dir
                        /\ a.dir # WikiDir /\ i < j)
                       => StrLess(a.name, b.name)
                /\ (a.kind = "sub" /\ b.kind = "sub" /\ a.dir = b.dir /\ i < j)
                       => StrLess(a.name, b.name)
                /\ (a.kind = "sub" /\ i = j) =>
                       LET body == process_directory(LinePath(a), a.level + 1,
                                                     gitignore_patterns)
                       IN  /\ i + Len(body) <= Len(outline)
                           /\ SubSeq(outline, i + 1, i + Len(body)) = body
                /\ (a.kind = "sub" /\ b.kind \in {"leaf", "sub"}
                        /\ (b.dir = LinePath(a) \/ Beneath(b.dir, LinePath(a))))
                       => /\ i < j
                          /\ b.level > a.level
                          /\ (b.dir = LinePath(a) => b.level = a.level + 1)
                          /\ \A k \in (i + 1)..j :
                                 \/ outline[k].dir = LinePath(a)
                                 \/ Beneath(outline[k].dir, LinePath(a))

\* a directory is rendered with a file whose name sorts after the name of a
\* subdirectory that is rendered too, and with two files
C2_Witness ==
    /\ Built
    /\ \E i \in 1..Len(outline), j \in 1..Len(outline), k \in 1..Len(outline) :
           /\ outline[i].kind = "leaf" /\ outline[j].kind = "sub"
           /\ outline[k].kind = "leaf" /\ k # i
           /\ outline[i].dir = outline[j].dir /\ outline[k].dir = outline[j].dir
           /\ StrLess(outline[j].name, outline[i].name)
           /\ j < Len(outline) /\ outline[j + 1].dir = LinePath(outline[j])

\* a header with nothing beneath it is in the output
C1_Seen ==
    /\ Built
    /\ \E i \in 1..Len(outline) : IsHeader(outline[i]) /\ outline[i + 1].kind = "blank"

\* the root-level directories that get a section: not hidden, not matched by
\* should_ignore, and with a .md file somewhere below
SectionDirs ==
    {e.name : e \in {x \in fs :
        /\ x.isdir
        /\ x.parent = WikiDir
        /\ ~StartsWith(x.name, ".")
        /\ ~should_ignore(EntryPath(x), gitignore_patterns)
        /\ HasMdBelow(EntryPath(x))}}

\* the root-level documents that qualify for the Unsorted section
UnsortedDocs ==
    {e.name : e \in {x \in fs :
        /\ ~x.isdir
        /\ x.parent = WikiDir
        /\ EndsWith(x.name, ".md")
        /\ ~StartsWith(x.name, "_")
        /\ ~StartsWith(x.name, ".")
        /\ x.name # "Home.md"
        /\ ~should_ignore(EntryPath(x), gitignore_patterns)}}

Marked(p) == Contains(p, "/_") \/ Contains(p, "/.")

\* C6: nothing whose name starts with "_" or "." is traversed or rendered: no
\* line is for such an entry or for an entry below one, and a directory gets a
\* header only if it has a document that is not such an entry and not below one.
C6_MarkedNeverRendered ==
    Built =>
        \A i \in 1..Len(outline) :
            outline[i].kind \in {"section", "sub", "leaf"} =>
                /\ ~Marked(LinePath(outline[i]))
                /\ IsHeader(outline[i]) =>
                       \E e \in fs :
                           /\ ~e.isdir
                           /\ EndsWith(e.name, ".md")
                           /\ Beneath(EntryPath(e), LinePath(outline[i]))
                           /\ ~Marked(EntryPath(e))

\* C9: a root-level directory gets its section header by the same check as a
\* nested one: iff some file below it ends in .md and is not matched by
\* should_ignore.
C9_RootLookaheadFiltersIgnored ==
    Built =>
        \A e \in {x \in fs : x.isdir /\ x.parent = WikiDir} :
            /\ has_md_files_root(EntryPath(e)) <=> has_md_files(EntryPath(e), gitignore_patterns)
            /\ has_md_files_root(EntryPath(e)) <=> HasKeptMdBelow(EntryPath(e))
            /\ (\E i \in 1..Len(outline) :
                    outline[i].kind = "section" /\ outline[i].name = e.name)
                   => HasKeptMdBelow(EntryPath(e))

\* the directories from the parent of entry e up to the root-level one
Ancestors(e) ==
    {a \in fs : a.isdir /\ (EntryPath(a) = e.parent \/ Beneath(e.parent, EntryPath(a)))}

\* a file below the root that process_directory is to render
Renderable(e) ==
    /\ ~e.isdir
    /\ e.parent # WikiDir
    /\ EndsWith(e.name, ".md")
    /\ ~StartsWith(e.name, "_")
    /\ ~StartsWith(e.name, ".")
    /\ ~should_ignore(EntryPath(e), gitignore_patterns)
    /\ \A a \in Ancestors(e) :
           ~StartsWith(a.name, ".") /\ ~should_ignore(EntryPath(a), gitignore_patterns)

\* C10: every renderable file below the root has exactly one link line, after
\* the header of its parent directory and before the header of the parent's
\* next sibling.
C10_NoRenderableDropped ==
    Built =>
        \A e \in {x \in fs : Renderable(x)} :
            LET own == {i \in 1..Len(outline) :
                           /\ outline[i].kind = "leaf"
                           /\ outline[i].dir = e.parent
                           /\ outline[i].name = e.name}
                heads == {h \in 1..Len(outline) :
                             IsHeader(outline[h]) /\ LinePath(outline[h]) = e.parent}
            IN  /\ Cardinality(own) = 1
                /\ Cardinality(heads) = 1
                /\ \A i \in own, h \in heads :
                       /\ h < i
                       /\ outline[i].level = outline[h].level + 1
                       /\ outline[i].text
                              = Indent(outline[i].level) \o "- " \o generate_wiki_link(e.name)
                       /\ \A j \in (h + 1)..Len(outline) :
                              (IsHeader(outline[j]) /\ outline[j].dir = outline[h].dir)
                                  => i < j

\* a renderable file two directories deep whose parent has a rendered sibling
\* after it
C10_Witness ==
    /\ Built
    /\ \E e \in {x \in fs : Renderable(x)} :
           /\ Cardinality(Ancestors(e)) = 2
           /\ \E h \in 1..Len(outline), j \in 1..Len(outline) :
                  /\ IsHeader(outline[h]) /\ LinePath(outline[h]) = e.parent
                  /\ IsHeader(outline[j]) /\ outline[j].dir = outline[h].dir
                  /\ h < j

\* C3: two runs in a row on the same root, with the same rules file and the
\* same output name, write the same content, whatever the output name is.
C3_RerunByteIdentical ==
    \A k \in 2..Len(history) : history[k] = history[k - 1]

\* the base of a name that ends in ".md" after a character other than a dot
MdBase(name) == SubSeq(name, 1, Len(name) - 3)

HasMdBase(name) ==
    /\ EndsWith(name, ".md")
    /\ \E k \in 1..(Len(name) - 3) : CharAt(name, k) # "."

\* C4, as the claim states it: for "My-File_Name.md" the label is
\* "My File Name" and the identifier is "My-File-Name".
C4_ExampleAsStated ==
    (pc = "return" /\ filename = "My-File_Name.md")
        => link = "[My File Name](My-File-Name)"

\* C4, amended: the link is "[label](identifier)", the label being the base with
\* every hyphen and underscore replaced by a space and the identifier the base
\* with every space replaced by a hyphen and then percent-encoded, underscores
\* kept: for "My-File_Name.md" the label is "My File Name" and the identifier
\* is "My-File_Name".
C4_LinkKeepsUnderscores ==
    (pc = "return" /\ HasMdBase(filename)) =>
        LET base == MdBase(filename)
            n == Len(base)
            hashes == Cardinality({i \in 1..n : CharAt(base, i) = "#"})
            id == SubSeq(link, n + 4, Len(link) - 1)
        IN  /\ Len(link) = 2 * n + 2 * hashes + 4
            /\ CharAt(link, 1) = "["
            /\ \A i \in 1..n :
                   CharAt(link, 1 + i)
                       = (IF CharAt(base, i) \in {"-", "_"} THEN " " ELSE CharAt(base, i))
            /\ SubSeq(link, n + 2, n + 3) = "]("
            /\ CharAt(link, Len(link)) = ")"
            /\ ~Contains(id, " ") /\ ~Contains(id, "#")
            /\ hashes = 0 =>
                   \A i \in 1..n :
                       CharAt(id, i) = (IF CharAt(base, i) = " " THEN "-" ELSE CharAt(base, i))
            /\ filename = "a#_.md" => link = "[a# ](a%23_)"
            /\ filename = "My-File_Name.md" => link = "[My File Name](My-File_Name)"

\* generate_wiki_link has returned for the name of the example
C4_Witness == pc = "return" /\ filename = "My-File_Name.md" /\ link # NoValue

\* C7: with only patterns that end in "/", should_ignore returns false for
\* every path that is a regular file.
C7_DirPatternsSpareFiles ==
    (/\ pc = "return"
     /\ IsFile(path)
     /\ \A i \in 1..Len(gitignore_patterns) : EndsWith(gitignore_patterns[i], "/"))
        => ~ignored

\* C8: the output file is written only by a run whose reads have all
\* succeeded: a run in which a directory could not be read ends without
\* touching the output file, and a written file holds the whole outline.
C8_ReadFailureLeavesOutputUntouched ==
    /\ dest # NoFile => (pc = "done" /\ dest = StrJoin(sidebar_content, "\n"))
    /\ pc = "failed" => dest = NoFile
    /\ read_errors # {} => dest = NoFile

====
